---------------------------- MODULE Spec2Model ----------------------------
(***************************************************************************)
(* Model of generate_red_profile.py: the tone-curve builder, the tag       *)
(* encoders, the profile assembly loop of create_icc_profile and the file  *)
(* write of main.  Bytes are integers 0..255, byte strings are sequences   *)
(* of bytes, text is a sequence of Unicode code points.                    *)
(***************************************************************************)
EXTENDS Integers, Sequences, FiniteSets

VARIABLES
    pc,                 \* position of main / create_icc_profile
    descText,           \* text handed to create_text_desc_tag for 'desc'
    cprtText,           \* text handed to create_text_desc_tag for 'cprt'
    red_curve, green_curve, blue_curve,
    red_curve_tag, green_curve_tag, blue_curve_tag,
    desc_tag, copyright_tag,
    tag_signatures,     \* list of <<sig, tag_data>> built so far (line 124)
    current_offset,     \* running offset cursor (line 122)
    tag_table_entries,  \* list of 12-byte entries (line 136)
    tag_data_section,   \* concatenated padded payloads (line 137)
    loop_index,         \* number of tags the for loop has consumed
    tag_table,          \* count field ++ entries (line 155)
    profile,            \* the byte string under construction / returned
    error,              \* name of the exception that ended the run, or "none"
    prevFile,           \* destination as it was before main ran
    destFile,           \* destination path: [exists, content]
    fileOpen,           \* the handle f of the with statement is open
    writeBuffer,        \* bytes accepted by f.write, not yet handed to the OS
    shortWrites,        \* short OS writes seen so far
    h_pc, h_in, h_out, h_out2   \* harness for the pure functions

vars == <<pc, descText, cprtText, red_curve, green_curve, blue_curve,
          red_curve_tag, green_curve_tag, blue_curve_tag, desc_tag,
          copyright_tag,
          tag_signatures, current_offset, tag_table_entries,
          tag_data_section, loop_index, tag_table, profile, error,
          prevFile, destFile, fileOpen, writeBuffer, shortWrites,
          h_pc, h_in, h_out, h_out2>>

mainVars == <<pc, descText, cprtText, red_curve, green_curve, blue_curve,
              red_curve_tag, green_curve_tag, blue_curve_tag, desc_tag,
              copyright_tag,
              tag_signatures, current_offset, tag_table_entries,
              tag_data_section, loop_index, tag_table, profile, error,
              prevFile, destFile, fileOpen, writeBuffer, shortWrites>>

harnessVars == <<h_pc, h_in, h_out, h_out2>>

---------------------------------------------------------------------------
(* Bounds of the model *)

\* longest text drawn for the description and copyright fields
MaxTextLen == 3
\* curve offsets are drawn from -MaxOffset..MaxOffset
MaxOffset == 256
\* longest byte string handed to pad_to_4bytes on its own
MaxPadLen == 5
\* size of a short OS write during the flush, and how many may happen
ShortWrite == 128
MaxShortWrites == 2

---------------------------------------------------------------------------
(* Program constants *)

tag_count == 9
HeaderSize == 128
TagEntrySize == 12
CurveLength == 256
MaxLevel == 255
MaxSample == 65535
MantissaBits == 53
AsciiLimit == 128
Alignment == 4

---------------------------------------------------------------------------
(* Sequence helpers *)

Min(a, b) == IF a < b THEN a ELSE b
Max(a, b) == IF a > b THEN a ELSE b

Zeros(n) == [i \in 1..n |-> 0]

Take(s, n) == SubSeq(s, 1, Min(n, Len(s)))
Drop(s, n) == SubSeq(s, n + 1, Len(s))

\* s[lo:hi] of Python, 0-based, hi exclusive
Slice(s, lo, hi) == SubSeq(s, lo + 1, Min(hi, Len(s)))

RECURSIVE Flatten(_)
Flatten(ss) == IF ss = <<>> THEN <<>> ELSE Head(ss) \o Flatten(Tail(ss))

RECURSIVE SeqsUpTo(_, _)
SeqsUpTo(S, n) ==
    IF n = 0 THEN {<<>>}
    ELSE LET shorter == SeqsUpTo(S, n - 1)
         IN  shorter \cup {Append(s, x) : s \in {t \in shorter : Len(t) = n - 1}, x \in S}

---------------------------------------------------------------------------
(* struct.pack / struct.unpack, big-endian *)

PackU32(n) == <<(n \div 16777216) % 256, (n \div 65536) % 256,
                (n \div 256) % 256, n % 256>>

PackU16(n) == <<(n \div 256) % 256, n % 256>>

UnpackU32(b) == ((b[1] * 256 + b[2]) * 256 + b[3]) * 256 + b[4]

InU16(n) == n >= 0 /\ n <= MaxSample

---------------------------------------------------------------------------
(* IEEE-754 binary64 arithmetic as Python's float performs it.  A nonzero  *)
(* float is [zero |-> FALSE, m, e]: m is the 53-bit significand, most      *)
(* significant bit first with m[1] = 1, and the value is m * 2^e.          *)

FloatZero == [zero |-> TRUE, m |-> <<>>, e |-> 0]

RECURSIVE Pow2(_)
Pow2(k) == IF k = 0 THEN 1 ELSE 2 * Pow2(k - 1)

\* binary digits of n, most significant first, no leading zero
RECURSIVE NatBits(_)
NatBits(n) == IF n = 0 THEN <<>> ELSE Append(NatBits(n \div 2), n % 2)

RECURSIVE BitsToNat(_)
BitsToNat(b) ==
    IF b = <<>> THEN 0 ELSE 2 * BitsToNat(SubSeq(b, 1, Len(b) - 1)) + b[Len(b)]

\* The arithmetic works on limbs of LimbBits bits, so that no intermediate
\* value leaves the 32-bit integers.
LimbBits == 13
LimbBase == Pow2(LimbBits)

LimbToBits(l) == [i \in 1..LimbBits |-> (l \div Pow2(LimbBits - i)) % 2]

LimbsToBits(ls) == Flatten([j \in 1..Len(ls) |-> LimbToBits(ls[j])])

\* bits, left-padded with zeros to a whole number of limbs, as limbs
BitsToLimbs(b) ==
    LET n   == (Len(b) + LimbBits - 1) \div LimbBits
        pad == Zeros(n * LimbBits - Len(b)) \o b
    IN  [j \in 1..n |-> BitsToNat(SubSeq(pad, (j - 1) * LimbBits + 1, j * LimbBits))]

StripLeadingZeros(b) ==
    IF \A i \in 1..Len(b) : b[i] = 0 THEN <<>>
    ELSE LET first == CHOOSE i \in 1..Len(b) :
                          b[i] = 1 /\ \A j \in 1..(i - 1) : b[j] = 0
         IN  SubSeq(b, first, Len(b))

\* b + 1 on a bit string that is not all ones
IncBits(b) ==
    LET p == CHOOSE i \in 1..Len(b) :
                 b[i] = 0 /\ \A j \in (i + 1)..Len(b) : b[j] = 1
    IN  [i \in 1..Len(b) |-> IF i < p THEN b[i] ELSE IF i = p THEN 1 ELSE 0]

\* Round-to-nearest, ties-to-even, to MantissaBits bits of the exact value
\* bits * 2^e (bits[1] = 1, Len(bits) >= MantissaBits), plus a nonzero tail
\* below the last bit when sticky.
RoundNearestEven(bits, sticky, e) ==
    LET L     == Len(bits)
        kept  == SubSeq(bits, 1, MantissaBits)
        guard == IF L > MantissaBits THEN bits[MantissaBits + 1] ELSE 0
        rest  == sticky \/ \E i \in (MantissaBits + 2)..L : bits[i] = 1
        up    == guard = 1 /\ (rest \/ kept[MantissaBits] = 1)
        e1    == e + (L - MantissaBits)
    IN  IF ~up THEN [zero |-> FALSE, m |-> kept, e |-> e1]
        ELSE IF \A i \in 1..MantissaBits : kept[i] = 1
             THEN [zero |-> FALSE,
                   m |-> <<1>> \o Zeros(MantissaBits - 1), e |-> e1 + 1]
             ELSE [zero |-> FALSE, m |-> IncBits(kept), e |-> e1]

\* long division of rem / d (rem < d) to k limbs: <<limbs, remainder>>
RECURSIVE DivLimbs(_, _, _)
DivLimbs(rem, d, k) ==
    IF k = 0 THEN <<<<>>, rem>>
    ELSE LET t    == rem * LimbBase
             rest == DivLimbs(t % d, d, k - 1)
         IN  <<<<t \div d>> \o rest[1], rest[2]>>

\* least s with n * 2^s >= d
RECURSIVE NormShift(_, _)
NormShift(n, d) == IF n >= d THEN 0 ELSE 1 + NormShift(2 * n, d)

\* limbs of the quotient computed below the leading bit
DivFracLimbs == (MantissaBits + LimbBits) \div LimbBits

\* float(n) / float(d) for integers 0 <= n < 2d, 0 < d < 2^17
FloatDiv(n, d) ==
    IF n = 0 THEN FloatZero
    ELSE LET s  == NormShift(n, d)
             n0 == n * Pow2(s)
             q  == DivLimbs(n0 - d, d, DivFracLimbs)
         IN  RoundNearestEven(<<1>> \o LimbsToBits(q[1]), q[2] # 0,
                              0 - (DivFracLimbs * LimbBits + s))

\* limbs ls (least significant last) times k: <<limbs, carry out>>
RECURSIVE MulLimbs(_, _, _)
MulLimbs(ls, k, i) ==
    IF i > Len(ls) THEN <<<<>>, 0>>
    ELSE LET lower == MulLimbs(ls, k, i + 1)
             t     == ls[i] * k + lower[2]
         IN  <<<<t % LimbBase>> \o lower[1], t \div LimbBase>>

\* x * float(k) for an integer 1 <= k < 2^17
FloatMul(x, k) ==
    IF x.zero THEN FloatZero
    ELSE LET p == MulLimbs(BitsToLimbs(x.m), k, 1)
         IN  RoundNearestEven(
                 StripLeadingZeros(NatBits(p[2]) \o LimbsToBits(p[1])),
                 FALSE, x.e)

\* int(x) for x >= 0: truncation toward zero
FloatToInt(x) ==
    IF x.zero THEN 0
    ELSE IF x.e >= 0 THEN BitsToNat(x.m) * Pow2(x.e)
    ELSE IF 0 - x.e >= MantissaBits THEN 0
    ELSE BitsToNat(SubSeq(x.m, 1, MantissaBits + x.e))

---------------------------------------------------------------------------
(* create_curve_data, lines 10-25 *)

\* a clamp that wraps into the byte range instead of saturating
ClampWrap(value) == value % (MaxLevel + 1)
\* min(255, max(0, i + offset)), line 21
Clamp(value) == Min(MaxLevel, Max(0, value))

\* a scaling that shifts the level into the high byte
ShiftScale(value) == value * (MaxLevel + 1)
\* a scaling that divides by 256 instead of 255
Div256Scale(value) ==
    FloatToInt(FloatMul(FloatDiv(value, MaxLevel + 1), MaxSample))
\* int((value / 255.0) * 65535), line 23
value_16bit(value) == FloatToInt(FloatMul(FloatDiv(value, MaxLevel), MaxSample))

Value16Table == [v \in 0..MaxLevel |-> value_16bit(v)]

create_curve_data(offset) ==
    [k \in 1..CurveLength |-> Value16Table[Clamp((k - 1) + offset)]]

---------------------------------------------------------------------------
(* pad_to_4bytes, lines 31-36 *)

\* a padding that adds a whole word to data that is already aligned
PadAlways(data) == data \o Zeros(Alignment - (Len(data) % Alignment))
pad_to_4bytes(data) ==
    LET remainder == Len(data) % Alignment
    IN  IF remainder # 0 THEN data \o Zeros(Alignment - remainder) ELSE data

---------------------------------------------------------------------------
(* The profile header, lines 41-64 *)

profile_size_placeholder == <<0, 0, 0, 0>>
preferred_cmm == <<0, 0, 0, 0>>
profile_version == <<2, 16, 0, 0>>
profile_class == <<109, 110, 116, 114>>        \* 'mntr'
color_space == <<82, 71, 66, 32>>              \* 'RGB '
pcs == <<88, 89, 90, 32>>                      \* 'XYZ '
creation_date == <<7, 233, 11, 10, 0, 0, 0, 0, 0, 0, 0, 0>>
acsp == <<97, 99, 115, 112>>                   \* 'acsp'
platform == <<77, 83, 70, 84>>                 \* 'MSFT'
flags == <<0, 0, 0, 0>>
device_manufacturer == <<0, 0, 0, 0>>
device_model == <<0, 0, 0, 0>>
device_attributes == <<0, 0, 0, 0, 0, 0, 0, 0>>
rendering_intent == <<0, 0, 0, 0>>
pcs_illuminant == PackU32(63190) \o PackU32(65536) \o PackU32(54061)
creator == <<67, 76, 68, 69>>                  \* 'CLDE'
reserved == Zeros(44)

header ==
    profile_size_placeholder \o preferred_cmm \o profile_version \o
    profile_class \o color_space \o pcs \o creation_date \o acsp \o
    platform \o flags \o device_manufacturer \o device_model \o
    device_attributes \o rendering_intent \o pcs_illuminant \o
    creator \o reserved

---------------------------------------------------------------------------
(* The tag encoders, lines 75-117 *)

curve_type == <<99, 117, 114, 118>>            \* 'curv'

\* b''.join(struct.pack('>H', v) for v in curve_values), line 80
PackSamples(curve_values) ==
    [j \in 1..(2 * Len(curve_values)) |->
        PackU16(curve_values[(j + 1) \div 2])[2 - (j % 2)]]

\* a curve tag whose count field holds the byte size of the samples
CurveTagByteCount(curve_values) ==
    curve_type \o <<0, 0, 0, 0>> \o PackU32(2 * Len(curve_values)) \o
    PackSamples(curve_values)
create_curve_tag(curve_values) ==
    curve_type \o <<0, 0, 0, 0>> \o PackU32(Len(curve_values)) \o
    PackSamples(curve_values)

\* struct.pack('>H', v) raises struct.error outside 0..65535
CurvePackable(curve_values) ==
    \A i \in 1..Len(curve_values) : InU16(curve_values[i])

IsAscii(text) == \A i \in 1..Len(text) : text[i] >= 0 /\ text[i] < AsciiLimit

\* an encoder that replaces what it cannot encode by '?'
EncodeReplace(text) ==
    [ok |-> TRUE,
     bytes |-> [i \in 1..Len(text) |->
                   IF text[i] < AsciiLimit THEN text[i] ELSE 63]]
\* text.encode('ascii'): the bytes, or UnicodeEncodeError
EncodeAscii(text) ==
    IF IsAscii(text) THEN [ok |-> TRUE, bytes |-> text]
    ELSE [ok |-> FALSE, bytes |-> <<>>]

desc_type == <<100, 101, 115, 99>>             \* 'desc'

create_text_desc_tag(text) ==
    LET ascii_len    == PackU32(Len(text) + 1)
        encoded      == EncodeAscii(text)
        ascii_text   == encoded.bytes \o <<0>>
        unicode_code == PackU32(0)
        unicode_len  == PackU32(0)
        script_code  == PackU16(0)
        script_len   == <<0>>
    IN  [ok    |-> encoded.ok,
         bytes |-> IF encoded.ok
                   THEN desc_type \o <<0, 0, 0, 0>> \o ascii_len \o ascii_text \o
                        unicode_code \o unicode_len \o script_code \o script_len
                   ELSE <<>>]

xyz_type == <<88, 89, 90, 32>>                 \* 'XYZ '

create_xyz_tag(x, y, z) ==
    xyz_type \o <<0, 0, 0, 0>> \o PackU32(x) \o PackU32(y) \o PackU32(z)

wtpt_tag == create_xyz_tag(63190, 65536, 54061)
rXYZ_tag == create_xyz_tag(62289, 65536, 54061)
gXYZ_tag == create_xyz_tag(28578, 65536, 54061)
bXYZ_tag == create_xyz_tag(28578, 65536, 54061)

\* the offsets create_icc_profile passes, lines 70-72
RedOffset == 22
GreenOffset == 0
BlueOffset == 0

\* the texts create_icc_profile passes, lines 101-102
ShippedDescription ==
    <<82, 101, 100, 43, 50, 50, 32, 84, 101, 115, 116, 32,
      80, 114, 111, 102, 105, 108, 101>>        \* "Red+22 Test Profile"
ShippedCopyright ==
    <<80, 117, 98, 108, 105, 99, 32, 68, 111, 109, 97, 105, 110>>
                                                \* "Public Domain"

SigDesc == <<100, 101, 115, 99>>
SigCprt == <<99, 112, 114, 116>>
SigWtpt == <<119, 116, 112, 116>>
SigRXYZ == <<114, 88, 89, 90>>
SigGXYZ == <<103, 88, 89, 90>>
SigBXYZ == <<98, 88, 89, 90>>
SigRTRC == <<114, 84, 82, 67>>
SigGTRC == <<103, 84, 82, 67>>
SigBTRC == <<98, 84, 82, 67>>

TagOrder == <<SigDesc, SigCprt, SigWtpt, SigRXYZ, SigGXYZ, SigBXYZ,
              SigRTRC, SigGTRC, SigBTRC>>

---------------------------------------------------------------------------
(* The assembly loop and the size patch, lines 119-164 *)

\* a start that forgets the 4-byte count field of the tag table
StartOffsetNoCount == HeaderSize + (tag_count * TagEntrySize)
StartOffset == HeaderSize + 4 + (tag_count * TagEntrySize)

TableEntry(sig, offset, tag_data) ==
    sig \o PackU32(offset) \o PackU32(Len(tag_data))

\* a cursor that is not advanced
NextOffsetStuck(offset, tag_data) == offset
NextOffset(offset, tag_data) == offset + Len(tag_data)

BuildTagTable(entries) == PackU32(tag_count) \o Flatten(entries)

\* a patch that keeps the placeholder behind the size
UpdateSizeKeepPlaceholder(p) == PackU32(Len(p)) \o p
UpdateSize(p) == PackU32(Len(p)) \o Drop(p, 4)

---------------------------------------------------------------------------
(* Inputs and initial states *)

\* code points the drawn texts are made of: the last ASCII character and
\* the first character outside ASCII
TextChars == {AsciiLimit - 1, AsciiLimit}

DescTexts == SeqsUpTo(TextChars, MaxTextLen) \cup {ShippedDescription}
CprtTexts == SeqsUpTo(TextChars, MaxTextLen) \cup {ShippedCopyright}

Absent == [exists |-> FALSE, content |-> <<>>]
\* a file left at the destination by an earlier run
OldFile == [exists |-> TRUE, content |-> <<79, 76, 68>>]

HarnessIdle ==
    /\ h_pc = "idle"
    /\ h_in = <<>>
    /\ h_out = <<>>
    /\ h_out2 = <<>>

MainLocalsEmpty ==
    /\ red_curve = <<>>
    /\ green_curve = <<>>
    /\ blue_curve = <<>>
    /\ red_curve_tag = <<>>
    /\ green_curve_tag = <<>>
    /\ blue_curve_tag = <<>>
    /\ desc_tag = <<>>
    /\ copyright_tag = <<>>
    /\ tag_signatures = <<>>
    /\ current_offset = 0
    /\ tag_table_entries = <<>>
    /\ tag_data_section = <<>>
    /\ loop_index = 0
    /\ tag_table = <<>>
    /\ profile = <<>>
    /\ error = "none"
    /\ fileOpen = FALSE
    /\ writeBuffer = <<>>
    /\ shortWrites = 0

MainIdle ==
    /\ pc = "idle"
    /\ descText = <<>>
    /\ cprtText = <<>>
    /\ prevFile = Absent
    /\ destFile = Absent
    /\ MainLocalsEmpty

Init ==
    /\ pc = "start"
    /\ descText \in DescTexts
    /\ cprtText \in CprtTexts
    /\ prevFile \in {Absent, OldFile}
    /\ destFile = prevFile
    /\ MainLocalsEmpty
    /\ HarnessIdle

---------------------------------------------------------------------------
(* create_icc_profile, lines 38-164 *)

\* lines 70-72
CreateCurves ==
    /\ pc = "start"
    /\ red_curve' = create_curve_data(RedOffset)
    /\ green_curve' = create_curve_data(GreenOffset)
    /\ blue_curve' = create_curve_data(BlueOffset)
    /\ pc' = "curves"
    /\ UNCHANGED <<descText, cprtText, red_curve_tag, green_curve_tag,
                   blue_curve_tag, desc_tag, copyright_tag, tag_signatures,
                   current_offset, tag_table_entries, tag_data_section,
                   loop_index, tag_table, profile, error, prevFile, destFile,
                   fileOpen, writeBuffer, shortWrites>>
    /\ UNCHANGED harnessVars

\* lines 83-85
CreateCurveTags ==
    /\ pc = "curves"
    /\ IF CurvePackable(red_curve) /\ CurvePackable(green_curve)
          /\ CurvePackable(blue_curve)
       THEN /\ red_curve_tag' = create_curve_tag(red_curve)
            /\ green_curve_tag' = create_curve_tag(green_curve)
            /\ blue_curve_tag' = create_curve_tag(blue_curve)
            /\ pc' = "curve_tags"
            /\ error' = error
       ELSE /\ pc' = "raised"
            /\ error' = "struct.error"
            /\ UNCHANGED <<red_curve_tag, green_curve_tag, blue_curve_tag>>
    /\ UNCHANGED <<descText, cprtText, red_curve, green_curve, blue_curve,
                   desc_tag, copyright_tag, tag_signatures,
                   current_offset, tag_table_entries, tag_data_section,
                   loop_index, tag_table, profile, prevFile, destFile,
                   fileOpen, writeBuffer, shortWrites>>
    /\ UNCHANGED harnessVars

\* line 101
CreateDescTag ==
    /\ pc = "curve_tags"
    /\ LET r == create_text_desc_tag(descText)
       IN  IF r.ok
           THEN /\ desc_tag' = r.bytes
                /\ pc' = "desc_tag"
                /\ error' = error
           ELSE /\ desc_tag' = desc_tag
                /\ pc' = "raised"
                /\ error' = "UnicodeEncodeError"
    /\ UNCHANGED <<descText, cprtText, red_curve, green_curve, blue_curve,
                   red_curve_tag, green_curve_tag, blue_curve_tag,
                   copyright_tag, tag_signatures,
                   current_offset, tag_table_entries, tag_data_section,
                   loop_index, tag_table, profile, prevFile, destFile,
                   fileOpen, writeBuffer, shortWrites>>
    /\ UNCHANGED harnessVars

\* line 102
CreateCopyrightTag ==
    /\ pc = "desc_tag"
    /\ LET r == create_text_desc_tag(cprtText)
       IN  IF r.ok
           THEN /\ copyright_tag' = r.bytes
                /\ pc' = "text_tags"
                /\ error' = error
           ELSE /\ copyright_tag' = copyright_tag
                /\ pc' = "raised"
                /\ error' = "UnicodeEncodeError"
    /\ UNCHANGED <<descText, cprtText, red_curve, green_curve, blue_curve,
                   red_curve_tag, green_curve_tag, blue_curve_tag,
                   desc_tag, tag_signatures,
                   current_offset, tag_table_entries, tag_data_section,
                   loop_index, tag_table, profile, prevFile, destFile,
                   fileOpen, writeBuffer, shortWrites>>
    /\ UNCHANGED harnessVars

\* lines 112-137: the XYZ tags, the cursor, the tag list, the empty table
StartAssembly ==
    /\ pc = "text_tags"
    /\ current_offset' = StartOffset
    /\ tag_signatures' =
           << <<SigDesc, desc_tag>>, <<SigCprt, copyright_tag>>,
              <<SigWtpt, wtpt_tag>>, <<SigRXYZ, rXYZ_tag>>,
              <<SigGXYZ, gXYZ_tag>>, <<SigBXYZ, bXYZ_tag>>,
              <<SigRTRC, red_curve_tag>>, <<SigGTRC, green_curve_tag>>,
              <<SigBTRC, blue_curve_tag>> >>
    /\ tag_table_entries' = <<>>
    /\ tag_data_section' = <<>>
    /\ loop_index' = 0
    /\ pc' = "loop"
    /\ UNCHANGED <<descText, cprtText, red_curve, green_curve, blue_curve,
                   red_curve_tag, green_curve_tag, blue_curve_tag,
                   desc_tag, copyright_tag, tag_table, profile, error,
                   prevFile, destFile, fileOpen, writeBuffer, shortWrites>>
    /\ UNCHANGED harnessVars

\* one iteration of the for loop, lines 139-152
AssembleTag ==
    /\ pc = "loop"
    /\ loop_index < Len(tag_signatures)
    /\ LET sig      == tag_signatures[loop_index + 1][1]
           tag_data == pad_to_4bytes(tag_signatures[loop_index + 1][2])
       IN  /\ tag_table_entries' =
                  Append(tag_table_entries,
                         TableEntry(sig, current_offset, tag_data))
           /\ tag_data_section' = tag_data_section \o tag_data
           /\ current_offset' = NextOffset(current_offset, tag_data)
    /\ loop_index' = loop_index + 1
    /\ UNCHANGED <<pc, descText, cprtText, red_curve, green_curve, blue_curve,
                   red_curve_tag, green_curve_tag, blue_curve_tag,
                   desc_tag, copyright_tag, tag_signatures, tag_table,
                   profile, error, prevFile, destFile, fileOpen,
                   writeBuffer, shortWrites>>
    /\ UNCHANGED harnessVars

\* lines 155-158: the tag table, and the three parts combined
CombineParts ==
    /\ pc = "loop"
    /\ loop_index = Len(tag_signatures)
    /\ tag_table' = BuildTagTable(tag_table_entries)
    /\ profile' = header \o BuildTagTable(tag_table_entries) \o tag_data_section
    /\ pc' = "combined"
    /\ UNCHANGED <<descText, cprtText, red_curve, green_curve, blue_curve,
                   red_curve_tag, green_curve_tag, blue_curve_tag,
                   desc_tag, copyright_tag, tag_signatures, current_offset,
                   tag_table_entries, tag_data_section, loop_index, error,
                   prevFile, destFile, fileOpen, writeBuffer, shortWrites>>
    /\ UNCHANGED harnessVars

\* lines 161-164: the size patched in, and the return to main (line 168)
ReturnProfile ==
    /\ pc = "combined"
    /\ profile' = UpdateSize(profile)
    /\ pc' = "returned"
    /\ UNCHANGED <<descText, cprtText, red_curve, green_curve, blue_curve,
                   red_curve_tag, green_curve_tag, blue_curve_tag,
                   desc_tag, copyright_tag, tag_signatures, current_offset,
                   tag_table_entries, tag_data_section, loop_index, tag_table,
                   error, prevFile, destFile, fileOpen, writeBuffer,
                   shortWrites>>
    /\ UNCHANGED harnessVars

---------------------------------------------------------------------------
(* main, lines 166-178 *)

fileLocals == <<descText, cprtText, red_curve, green_curve, blue_curve,
                red_curve_tag, green_curve_tag, blue_curve_tag,
                desc_tag, copyright_tag, tag_signatures, current_offset,
                tag_table_entries, tag_data_section, loop_index, tag_table,
                profile, prevFile>>

\* open(output_file, 'wb'), line 171: the file is created or truncated, or
\* the open fails and the destination is left as it was
OpenFile ==
    /\ pc = "returned"
    /\ \/ /\ destFile' = [exists |-> TRUE, content |-> <<>>]
          /\ fileOpen' = TRUE
          /\ pc' = "opened"
          /\ error' = error
       \/ /\ pc' = "raised"
          /\ error' = "OSError"
          /\ UNCHANGED <<destFile, fileOpen>>
    /\ UNCHANGED <<writeBuffer, shortWrites>>
    /\ UNCHANGED fileLocals
    /\ UNCHANGED harnessVars

\* f.write(profile_data), line 172: the buffered writer takes the bytes
WriteData ==
    /\ pc = "opened"
    /\ writeBuffer' = profile
    /\ pc' = "written"
    /\ UNCHANGED <<destFile, fileOpen, error, shortWrites>>
    /\ UNCHANGED fileLocals
    /\ UNCHANGED harnessVars

\* sizes one OS write may take from the buffer
WriteSizes ==
    {Len(writeBuffer)} \cup
    (IF shortWrites < MaxShortWrites /\ ShortWrite < Len(writeBuffer)
     THEN {ShortWrite} ELSE {})

\* leaving the with block flushes the buffer, one OS write at a time
FlushWrite ==
    /\ pc = "written"
    /\ writeBuffer # <<>>
    /\ \E n \in WriteSizes :
          /\ destFile' = [destFile EXCEPT !.content = @ \o Take(writeBuffer, n)]
          /\ writeBuffer' = Drop(writeBuffer, n)
          /\ shortWrites' = IF n < Len(writeBuffer) THEN shortWrites + 1
                            ELSE shortWrites
    /\ UNCHANGED <<pc, fileOpen, error>>
    /\ UNCHANGED fileLocals
    /\ UNCHANGED harnessVars

\* an OS write fails (disk full): the handle is closed, the error propagates
FlushFail ==
    /\ pc = "written"
    /\ writeBuffer # <<>>
    /\ pc' = "raised"
    /\ error' = "OSError"
    /\ fileOpen' = FALSE
    /\ writeBuffer' = <<>>
    /\ UNCHANGED <<destFile, shortWrites>>
    /\ UNCHANGED fileLocals
    /\ UNCHANGED harnessVars

\* the with block closes the handle once the buffer is empty
CloseFile ==
    /\ pc = "written"
    /\ writeBuffer = <<>>
    /\ fileOpen' = FALSE
    /\ pc' = "closed"
    /\ UNCHANGED <<destFile, error, writeBuffer, shortWrites>>
    /\ UNCHANGED fileLocals
    /\ UNCHANGED harnessVars

\* lines 174-178
PrintSummary ==
    /\ pc = "closed"
    /\ pc' = "done"
    /\ UNCHANGED <<destFile, fileOpen, error, writeBuffer, shortWrites>>
    /\ UNCHANGED fileLocals
    /\ UNCHANGED harnessVars

Running == pc \notin {"idle", "done", "raised", "killed"}

\* the process is killed: unflushed bytes are lost, the OS closes the handle
Interrupt ==
    /\ Running
    /\ pc' = "killed"
    /\ fileOpen' = FALSE
    /\ writeBuffer' = <<>>
    /\ UNCHANGED <<destFile, error, shortWrites>>
    /\ UNCHANGED fileLocals
    /\ UNCHANGED harnessVars

Next ==
    \/ CreateCurves
    \/ CreateCurveTags
    \/ CreateDescTag
    \/ CreateCopyrightTag
    \/ StartAssembly
    \/ AssembleTag
    \/ CombineParts
    \/ ReturnProfile
    \/ OpenFile
    \/ WriteData
    \/ FlushWrite
    \/ FlushFail
    \/ CloseFile
    \/ PrintSummary
    \/ Interrupt

Spec == Init /\ [][Next]_vars

---------------------------------------------------------------------------
(* create_curve_data and create_curve_tag on their own, for every offset *)

CurveInit ==
    /\ MainIdle
    /\ h_pc = "call"
    /\ h_in \in (0 - MaxOffset)..MaxOffset
    /\ h_out = <<>>
    /\ h_out2 = <<>>

CurveCall ==
    /\ h_pc = "call"
    /\ h_out' = create_curve_data(h_in)
    /\ h_pc' = "curve"
    /\ UNCHANGED <<h_in, h_out2>>
    /\ UNCHANGED mainVars

CurveTagCall ==
    /\ h_pc = "curve"
    /\ IF CurvePackable(h_out)
       THEN /\ h_out2' = create_curve_tag(h_out)
            /\ h_pc' = "tag"
       ELSE /\ h_out2' = h_out2
            /\ h_pc' = "raised"
    /\ UNCHANGED <<h_in, h_out>>
    /\ UNCHANGED mainVars

CurveNext == CurveCall \/ CurveTagCall

SpecCurve == CurveInit /\ [][CurveNext]_vars

---------------------------------------------------------------------------
(* pad_to_4bytes on its own, for every short byte string *)

PadBytes == {0, 1, 255}

PadInit ==
    /\ MainIdle
    /\ h_pc = "call"
    /\ h_in \in SeqsUpTo(PadBytes, MaxPadLen)
    /\ h_out = <<>>
    /\ h_out2 = <<>>

PadCall ==
    /\ h_pc = "call"
    /\ h_out' = pad_to_4bytes(h_in)
    /\ h_pc' = "padded"
    /\ UNCHANGED <<h_in, h_out2>>
    /\ UNCHANGED mainVars

PadAgain ==
    /\ h_pc = "padded"
    /\ h_out2' = pad_to_4bytes(h_out)
    /\ h_pc' = "padded_twice"
    /\ UNCHANGED <<h_in, h_out>>
    /\ UNCHANGED mainVars

PadNext == PadCall \/ PadAgain

SpecPad == PadInit /\ [][PadNext]_vars

---------------------------------------------------------------------------
(* Reading a profile back, as a consumer of the file does *)

\* create_icc_profile has returned its profile to main
Returned == pc \in {"returned", "opened", "written", "closed", "done"}

SizeField(p) == UnpackU32(Slice(p, 0, 4))

TagCountField(p) == UnpackU32(Slice(p, HeaderSize, HeaderSize + 4))

\* entry k (1-based) of the tag table of p
Entry(p, k) ==
    LET base == HeaderSize + 4 + TagEntrySize * (k - 1)
    IN  [sig    |-> Slice(p, base, base + 4),
         offset |-> UnpackU32(Slice(p, base + 4, base + 8)),
         length |-> UnpackU32(Slice(p, base + 8, base + 12))]

\* the bytes entry k addresses
Payload(p, k) == Slice(p, Entry(p, k).offset, Entry(p, k).offset + Entry(p, k).length)

EntryOf(p, sig) == CHOOSE k \in 1..TagCountField(p) : Entry(p, k).sig = sig

RECURSIVE SumPadded(_)
SumPadded(tags) ==
    IF tags = <<>> THEN 0
    ELSE Len(pad_to_4bytes(Head(tags)[2])) + SumPadded(Tail(tags))

---------------------------------------------------------------------------
(* Claims *)

\* C1: in every profile create_icc_profile returns, the big-endian 32-bit
\* integer in bytes 0..3 equals the length of the profile, which is
\* 128 + 4 + 12 * tag_count + the sum of the padded payload lengths.
C1_SizeFieldIsTotalLength ==
    Returned =>
        /\ SizeField(profile) = Len(profile)
        /\ Len(profile) = HeaderSize + 4 + TagEntrySize * tag_count
                          + SumPadded(tag_signatures)

C1_Witness ==
    /\ pc = "returned"
    /\ descText = <<127>>
    /\ cprtText = <<127, 127>>
    /\ SizeField(profile) > HeaderSize

\* C2: in the tag table of a returned profile the offsets strictly increase,
\* the first one is 128 + 4 + 12 * tag_count, every span [offset,
\* offset + length) lies between the end of the tag table and the end of the
\* profile, no two spans overlap, and consecutive spans are at most 3 bytes
\* apart.
C2_TagSpansWellFormed ==
    Returned =>
        LET n        == TagCountField(profile)
            E(k)     == Entry(profile, k)
            tableEnd == HeaderSize + 4 + TagEntrySize * n
        IN  /\ E(1).offset = HeaderSize + 4 + TagEntrySize * tag_count
            /\ \A k \in 1..(n - 1) : E(k).offset < E(k + 1).offset
            /\ \A k \in 1..n :
                  /\ E(k).offset >= tableEnd
                  /\ E(k).offset + E(k).length <= Len(profile)
            /\ \A j \in 1..n : \A k \in 1..n :
                  j < k => E(j).offset + E(j).length <= E(k).offset
            /\ \A k \in 1..(n - 1) :
                  E(k + 1).offset - (E(k).offset + E(k).length) <= 3

C2_Witness ==
    /\ pc = "returned"
    /\ Len(descText) = 1
    /\ Len(cprtText) = 2
    /\ Entry(profile, 3).offset > Entry(profile, 2).offset

\* C3: for every offset o in -255..255 and every index i in 0..255, sample i
\* of create_curve_data(o) is clamp(i + o, 0, 255) / 255 * 65535 exactly,
\* that is clamp(i + o, 0, 255) * 257: truncating the float product loses
\* nothing against rounding it.
C3_SamplesAreExactlyScaled ==
    (h_pc \in {"curve", "tag"} /\ h_in >= 0 - MaxLevel /\ h_in <= MaxLevel) =>
        \A i \in 0..(CurveLength - 1) :
            LET c == IF i + h_in < 0 THEN 0
                     ELSE IF i + h_in > MaxLevel THEN MaxLevel ELSE i + h_in
            IN  /\ MaxLevel * h_out[i + 1] = c * MaxSample
                /\ h_out[i + 1] = c * 257

C3_Witness ==
    /\ h_pc = "curve"
    /\ h_in = 0 - MaxLevel
    /\ h_out[CurveLength] = 0
    /\ Len(h_out) = CurveLength

\* C5: when the description or the copyright text holds a character outside
\* 0..127, the run ends in the encoder's error before anything is written:
\* no profile is returned, the destination is never opened or changed, and
\* no bytes are produced for the offending text.
C5_NonAsciiRejectedBeforeWrite ==
    (~IsAscii(descText) \/ ~IsAscii(cprtText)) =>
        /\ pc \in {"start", "curves", "curve_tags", "desc_tag", "raised", "killed"}
        /\ profile = <<>>
        /\ ~fileOpen
        /\ writeBuffer = <<>>
        /\ destFile = prevFile
        /\ copyright_tag = <<>>
        /\ (~IsAscii(descText) => desc_tag = <<>> /\ pc # "desc_tag")
        /\ (pc = "raised" => error = "UnicodeEncodeError")

C5_Witness ==
    /\ pc = "raised"
    /\ error = "UnicodeEncodeError"
    /\ IsAscii(descText)
    /\ cprtText = <<127, 128>>
    /\ prevFile = OldFile

\* C6: for the shipped texts and offsets the returned profile has a length
\* that is a multiple of 4, a tag count field of 9 with exactly 9 entries,
\* and rTRC and gTRC entries of length 524 whose payloads share the 12-byte
\* prefix 'curv', four zero bytes, count 256, and differ in the samples.
C6_ShippedProfileLayout ==
    (Returned /\ descText = ShippedDescription /\ cprtText = ShippedCopyright) =>
        LET r == EntryOf(profile, SigRTRC)
            g == EntryOf(profile, SigGTRC)
        IN  /\ Len(profile) % 4 = 0
            /\ TagCountField(profile) = 9
            /\ Len(tag_table_entries) = 9
            /\ Entry(profile, 1).offset = HeaderSize + 4 + TagEntrySize * 9
            /\ \E k \in 1..9 : Entry(profile, k).sig = SigRTRC
            /\ \E k \in 1..9 : Entry(profile, k).sig = SigGTRC
            /\ Entry(profile, r).length = 524
            /\ Entry(profile, g).length = 524
            /\ Len(Payload(profile, r)) = 524
            /\ Len(Payload(profile, g)) = 524
            /\ Take(Payload(profile, r), 12) =
                   <<99, 117, 114, 118, 0, 0, 0, 0, 0, 0, 1, 0>>
            /\ Take(Payload(profile, g), 12) = Take(Payload(profile, r), 12)
            /\ Drop(Payload(profile, r), 12) # Drop(Payload(profile, g), 12)

C6_Witness ==
    /\ pc = "done"
    /\ descText = ShippedDescription
    /\ cprtText = ShippedCopyright
    /\ destFile.content = profile
    /\ Len(profile) = 1976

\* C7: pad_to_4bytes(x) has a length that is a multiple of 4, starts with x,
\* adds fewer than 4 bytes, all zero, is x itself when len(x) is a multiple
\* of 4, and padding the result again changes nothing.
C7_PaddingProperties ==
    h_pc = "padded_twice" =>
        /\ Len(h_out) % 4 = 0
        /\ Len(h_out) >= Len(h_in)
        /\ Len(h_out) - Len(h_in) < 4
        /\ SubSeq(h_out, 1, Len(h_in)) = h_in
        /\ \A i \in (Len(h_in) + 1)..Len(h_out) : h_out[i] = 0
        /\ (Len(h_in) % 4 = 0 => h_out = h_in)
        /\ h_out2 = h_out

C7_Witness ==
    /\ h_pc = "padded_twice"
    /\ h_in = <<255, 0, 1, 0, 255>>
    /\ Len(h_out2) = 8

\* C8: for every offset the curve has exactly 256 samples, each in
\* 0..65535 so that it packs into an unsigned 16-bit field, and the samples
\* never decrease with the index.
C8_CurveShapeAndMonotone ==
    /\ h_pc # "raised"
    /\ h_pc \in {"curve", "tag"} =>
          /\ Len(h_out) = 256
          /\ \A k \in 1..Len(h_out) : h_out[k] >= 0 /\ h_out[k] <= 65535
          /\ \A k \in 1..(Len(h_out) - 1) : h_out[k] <= h_out[k + 1]
    /\ h_pc = "tag" => Len(h_out2) = 12 + 2 * 256

C8_Witness ==
    /\ h_pc = "tag"
    /\ h_in = 100
    /\ h_out[1] < h_out[2]
    /\ h_out[200] = h_out[256]

\* C9: create_curve_data(22) is 65535 from index 233 through 255; for an
\* offset o >= 0 every index i with i + o >= 255 yields 65535, for o <= 0
\* every index i with i + o <= 0 yields 0; create_curve_data(0) starts at 0
\* and ends at 65535.
C9_ClampSaturation ==
    h_pc \in {"curve", "tag"} =>
        /\ (h_in = 22 => \A i \in 233..255 : h_out[i + 1] = 65535)
        /\ (h_in >= 0 =>
               \A i \in 0..255 : i + h_in >= 255 => h_out[i + 1] = 65535)
        /\ (h_in <= 0 =>
               \A i \in 0..255 : i + h_in <= 0 => h_out[i + 1] = 0)
        /\ (h_in = 0 => h_out[1] = 0 /\ h_out[256] = 65535)

C9_Witness ==
    /\ h_pc = "curve"
    /\ h_in = 22
    /\ h_out[234] = 65535
    /\ h_out[233] < 65535

\* C10: every tag-table entry addresses its own payload in the returned
\* profile: the table holds the tags in input order (desc, cprt, wtpt, rXYZ,
\* gXYZ, bXYZ, rTRC, gTRC, bTRC), each entry records the padded length, and
\* the bytes at [offset, offset + length) are that tag's padded payload;
\* the header is 128 bytes and tag_count is the number of entries emitted.
C10_EntriesAddressTheirPayloads ==
    Returned =>
        /\ Len(header) = 128
        /\ tag_count = Len(tag_table_entries)
        /\ TagCountField(profile) = Len(tag_signatures)
        /\ \A k \in 1..Len(tag_signatures) :
              LET padded == pad_to_4bytes(tag_signatures[k][2])
              IN  /\ Entry(profile, k).sig = TagOrder[k]
                  /\ tag_signatures[k][1] = TagOrder[k]
                  /\ Entry(profile, k).length = Len(padded)
                  /\ Payload(profile, k) = padded

C10_Witness ==
    /\ pc = "closed"
    /\ descText = <<127, 127, 127>>
    /\ cprtText = <<>>
    /\ Payload(profile, 1) = desc_tag \o <<0>>
    /\ Entry(profile, 9).sig = SigBTRC

\* C4: the destination is all-or-nothing: at every moment of main it is as
\* it was before the run (absent, or its previous content) or it holds the
\* complete profile; a truncated profile is never visible there.
C4_DestinationAllOrNothing ==
    \/ destFile = prevFile
    \/ /\ destFile.exists
       /\ profile # <<>>
       /\ destFile.content = profile

===========================================================================
